---- MODULE Spec2Model ----
(***************************************************************************)
(* The /generate pipeline of gaze_server.py together with the generate_grid *)
(* worker of generate_gaze.py.                                              *)
(*                                                                          *)
(* Six specifications are given.                                            *)
(*                                                                          *)
(*   Spec        the two source files exactly as they are.  gaze_server.py  *)
(*               calls generator.generate_grid with seven positional        *)
(*               arguments (the last one quadrant_ready_callback), while    *)
(*               generate_grid in generate_gaze.py accepts six: the call    *)
(*               raises TypeError inside the worker thread before the body  *)
(*               of generate_grid runs, and the handler's except block      *)
(*               turns it into a 500.                                       *)
(*                                                                          *)
(*   SpecBridge  the same handler, callbacks and upload tasks, driven by a  *)
(*               worker that accepts the seventh argument and reports       *)
(*               ("stitching", q, 8) and quadrant-ready(q) around each of   *)
(*               the 8 sprites, which is the worker the handler's callbacks *)
(*               are written for.  Those two calls are not in               *)
(*               generate_gaze.py; everything else in the worker is.        *)
(*                                                                          *)
(*   SpecGrid    generate_grid as main() of generate_gaze.py calls it, with *)
(*               keyword arguments and no progress_callback: source         *)
(*               preparation, the parameter grid, the batches, background   *)
(*               removal, image_grid, the 8 quadrant sprites (ffmpeg, or    *)
(*               the PIL fallback) and metadata.json.                       *)
(*                                                                          *)
(*   SpecBatch   the same call with --batch-size given, the loop over the   *)
(*               batches being taken to completion.                         *)
(*                                                                          *)
(*   SpecPoll    Spec with GET /progress/{session_id} answered at any time. *)
(*                                                                          *)
(*   SpecGen     get_generator called from several worker threads at once,  *)
(*               one step for each read or write of _GENERATOR.             *)
(*                                                                          *)
(* Granularity. The event loop runs a coroutine without interruption from   *)
(* one await to the next, so each such stretch of the handler is one        *)
(* action. The callbacks run in the worker thread, which the interpreter    *)
(* may preempt between the read of _SESSION_PROGRESS and the write back:    *)
(* each callback is two actions (get, apply). Python dicts are objects:     *)
(* heap holds them, and _SESSION_PROGRESS and the callbacks' progress_data  *)
(* hold references. A stretch of the handler is taken as one step also with *)
(* respect to the worker threads (the record that an undecodable payload    *)
(* creates and deletes in one stretch is not seen in between). The          *)
(* "message" text of a record is a function of the stage, current and total *)
(* written with it and is left out.                                         *)
(*                                                                          *)
(* Inputs. Each request chooses its session id, whether its payload         *)
(* decodes, its storage configurations (r2, cloudflare) and                 *)
(* remove_background; each choice is made no later than the first step      *)
(* whose outcome depends on it. The environment chooses whether             *)
(* get_generator, prepare_source, generate_batch, remove_background and the *)
(* tiler raise, what each upload returns, and whether metadata.json is      *)
(* still intact when the handler looks for it.                              *)
(***************************************************************************)
EXTENDS Integers, Sequences, FiniteSets, TLC

\* ------------------------------------------------------------- bounds
\* Requests issued in one behaviour.
MaxRequests == 2
\* Session ids in use.
NumSessions == 2
\* Quadrant uploads the environment lets fail in one behaviour.
MaxUploadFailures == 1
\* Requests of one behaviour that get as far as generate_grid; the others
\* end at the payload or the model load, or are still loading.
MaxPipelineRuns == 1
\* Quadrant uploads of one request under way at the same time: the worker is
\* not scheduled to raise the next notification while this many are.
MaxInFlight == 2
\* The grid_size every request asks for.
GridSize == 4
\* The largest --grid-size given on the command line (the smallest is 2).
MaxGridSize == 24
\* Width and height in pixels of a rendered cell.
ImgW == 3
ImgH == 2
\* Quadrants of one command-line run whose ffmpeg call fails.
MaxTilerFailures == 2
\* The largest --batch-size given on the command line (the smallest is 1),
\* and the largest --grid-size given together with a --batch-size.
MaxBatchSize == 9
MaxBatchGridSize == 5
\* Worker threads that run get_generator, and the calls each of them makes.
NumLoaders == 2
MaxLoads == 2

\* -------------------------------------------------- program constants
\* The 8 quadrant slots of a record.
NumQuadrants == 8
\* batch_size passed by the handler.
BatchSize == 8
\* total passed with the "loading" progress report.
LoadingTotal == 100
\* mobile_grid_size.
MobileGridSize == 20
\* The axis runs from -15 to 15: step = 30 / (grid_size - 1).
AxisHalf == 15
\* Axis values are kept in units of 1/200: round(v, 2) has two decimals, and
\* the halves y / 2 and x / 2 of such a value are whole numbers of 1/200.
Unit == 200

QUADRANT_PENDING == "pending"
QUADRANT_STITCHING == "stitching"
QUADRANT_UPLOADING == "uploading"
QUADRANT_DONE == "done"
QUADRANT_ERROR == "error"

QUADRANT_FILES ==
  << "q0.webp", "q1.webp", "q2.webp", "q3.webp",
     "q0_20.webp", "q1_20.webp", "q2_20.webp", "q3_20.webp" >>

Requests == 1..MaxRequests
Sessions == 1..NumSessions
Quadrants == 0..(NumQuadrants - 1)
ObjIds == 1..(NumSessions + MaxRequests)
NoObj == 0
TotalImages == GridSize * GridSize

VARIABLES
  heap,             \* ObjIds -> dict object (progress records)
  sessionProgress,  \* _SESSION_PROGRESS: session id -> reference, NoObj when absent
  req,              \* request id -> the state of that /generate call
  disk,             \* session id -> files of jobs/<session id>/gaze_output
  run,              \* a generate_grid call made by main() of generate_gaze.py
  polled,           \* the last answer of GET /progress/{session_id}
  generator,        \* _GENERATOR: the resident renderer instance, or NoGenerator
  loader            \* thread -> the get_generator call that thread is running

vars == << heap, sessionProgress, req, disk, run, polled, generator, loader >>

\* ------------------------------------------------------------ records
\* A heap cell no reference points to.
FreeCell ==
  [stage |-> "#free", current |-> 0, total |-> 0, quadrants |-> << >>, quadrant |-> -1]

\* The dict {} that .get(session_id, {}) returns for an absent session:
\* no "stage", no "quadrants" (<< >>), no "quadrant" (-1).
EmptyDict ==
  [stage |-> "#unset", current |-> 0, total |-> 0, quadrants |-> << >>, quadrant |-> -1]

\* "quadrants" in progress_data
HasQuadrants(pd) == pd.quadrants # << >>

\* The record /generate starts with.
InitialRecord(gridSize) ==
  [stage |-> "initializing", current |-> 0, total |-> gridSize * gridSize,
   quadrants |-> [i \in 1..NumQuadrants |-> QUADRANT_PENDING], quadrant |-> -1]

\* progress_data["quadrants"][idx]["status"] = status, guarded as in the code.
SetQuadrant(pd, idx, status) ==
  IF HasQuadrants(pd) /\ idx < NumQuadrants
  THEN [pd EXCEPT !.quadrants[idx + 1] = status]
  ELSE pd

\* A progress_callback that stores a new dict with every report, its
\* quadrants back at pending (C4 tells it from ProgressUpdate).
ProgressUpdateBad(pd, stage, current, total) ==
  [stage |-> stage, current |-> current, total |-> total,
   quadrants |-> [i \in 1..NumQuadrants |-> QUADRANT_PENDING], quadrant |-> -1]

\* The body of progress_callback on the dict it fetched.
ProgressUpdate(pd, stage, current, total) ==
  LET upd == [pd EXCEPT !.stage = stage, !.current = current, !.total = total]
  IN IF stage = "stitching" /\ total = NumQuadrants
     THEN SetQuadrant([upd EXCEPT !.quadrant = current], current, QUADRANT_STITCHING)
     ELSE upd

\* An outcome that is done whatever the upload returned (C1 tells it from
\* OutcomeStatus).
OutcomeStatusBad(success) == QUADRANT_DONE

\* QUADRANT_DONE if success else "error"
OutcomeStatus(success) == IF success THEN QUADRANT_DONE ELSE QUADRANT_ERROR

\* ----------------------------------------------------------- requests
NoW == [k |-> "idle", i |-> 0]
W(k, i) == [k |-> k, i |-> i]

IdleRequest ==
  [pc |-> "new", session |-> 0, r2 |-> FALSE, cf |-> FALSE,
   w |-> NoW, pd |-> NoObj, werr |-> "none",
   uploads |-> [q \in Quadrants |-> "none"], unrecorded |-> FALSE, notified |-> << >>,
   finals |-> {}, finalsFailed |-> {}, sentTo |-> {}, response |-> "none", cause |-> "none",
   metadata |-> << >>,
   r2_uploaded |-> FALSE, cdn_uploaded |-> FALSE]

NoFiles == [sprites |-> {}, metadata |-> << >>]

\* metadata.json as generate_grid writes it (the fields that depend on the
\* request; imageWidth, imageHeight and hasAlpha are the renderer's).
Metadata(gridSize) ==
  << gridSize, gridSize \div 2, MobileGridSize, MobileGridSize \div 2,
     gridSize * gridSize >>

\* No generate_grid call from the command line.
NoRun == [pc |-> "none"]

\* No GET /progress answered yet.
NoAnswer == [session |-> 0, body |-> << >>]

\* _GENERATOR = None.
NoGenerator == [id |-> << >>, remove_background |-> FALSE]
\* GazeGridGeneratorWeb(device='cuda', remove_background=rb), built by the
\* n-th call of thread t.
Instance(t, n, rb) == [id |-> << t, n >>, remove_background |-> rb]

Loaders == 1..NumLoaders
\* A thread that is not inside get_generator: pc is the statement the call is
\* at, ret what the last call returned, err the exception it raised.
IdleLoader ==
  [pc |-> "idle", calls |-> 0, remove_background |-> FALSE, ret |-> NoGenerator,
   err |-> "none"]

\* --------------------------------------------------------------- heap
Referenced(o, m, rq) ==
  \/ \E s \in Sessions : m[s] = o
  \/ \E r \in Requests : rq[r].pd = o

\* The first cell nothing refers to.
Alloc ==
  CHOOSE o \in ObjIds :
    /\ ~Referenced(o, sessionProgress, req)
    /\ \A p \in ObjIds : ~Referenced(p, sessionProgress, req) => o <= p

\* The next state: cells no longer referenced are collected.
Commit(h, m, rq, d) ==
  /\ heap' = [o \in ObjIds |-> IF Referenced(o, m, rq) THEN h[o] ELSE FreeCell]
  /\ sessionProgress' = m
  /\ req' = rq
  /\ disk' = d
  /\ run' = run
  /\ polled' = polled
  /\ generator' = generator
  /\ loader' = loader

\* ---------------------------------------------------------- map steps
\* progress_callback run on the event loop: fetch (the record, or a new {}),
\* update, store back.  Returns << heap, map >>.
LoopProgress(h, m, s, stage, current, total) ==
  LET o == IF m[s] # NoObj THEN m[s] ELSE Alloc
      pd == IF m[s] # NoObj THEN h[o] ELSE EmptyDict
  IN << [h EXCEPT ![o] = ProgressUpdate(pd, stage, current, total)],
        [m EXCEPT ![s] = o] >>

\* A deletion that empties the whole map (C25 tells it from Delete).
DeleteBad(m, s) == [x \in Sessions |-> NoObj]

\* del _SESSION_PROGRESS[session_id]; a KeyError for an absent id leaves the
\* map as it is and still ends the request with a 500.
Delete(m, s) == [m EXCEPT ![s] = NoObj]

Init ==
  /\ heap = [o \in ObjIds |-> FreeCell]
  /\ sessionProgress = [s \in Sessions |-> NoObj]
  /\ req = [r \in Requests |-> IdleRequest]
  /\ disk = [s \in Sessions |-> NoFiles]
  /\ run = NoRun
  /\ polled = NoAnswer
  /\ generator = NoGenerator
  /\ loader = [t \in Loaders |-> IdleLoader]

\* Requests are issued in the order of their ids, and session ids are taken
\* into use in the order of theirs (ids are interchangeable).
NextRequest(r, s) ==
  /\ req[r].pc = "new"
  /\ \A p \in Requests : p < r => req[p].pc # "new"
  /\ s = 1 \/ \E p \in Requests : req[p].session \in {s - 1, s}

\* The request has handed generate_grid to a thread.
Started(r) ==
  \/ req[r].pc \in {"gen", "gather", "final1", "final2"}
  \/ req[r].pc = "done" /\ req[r].cause \notin {"InvalidInput", "ModelLoad"}

\* POST /generate up to its first await: the record is created, the payload
\* decoded (400 and the record deleted when it does not decode), "loading"
\* reported and get_generator handed to a thread.
Arrive(r, s, decodes) ==
  /\ NextRequest(r, s)
  /\ LET o == Alloc
         h1 == [heap EXCEPT ![o] = InitialRecord(GridSize)]
         m1 == [sessionProgress EXCEPT ![s] = o]
         base == [req[r] EXCEPT !.session = s]
     IN IF ~decodes
        THEN Commit(h1, Delete(m1, s),
                    [req EXCEPT ![r] = [base EXCEPT !.pc = "done", !.response = "400",
                                                    !.cause = "InvalidInput"]],
                    disk)
        ELSE LET hm == LoopProgress(h1, m1, s, "loading", 0, LoadingTotal)
             IN Commit(hm[1], hm[2],
                       [req EXCEPT ![r] = [base EXCEPT !.pc = "load"]], disk)

\* get_generator raised in its thread: the record is deleted, 500.
GetGeneratorFails(r) ==
  /\ req[r].pc = "load"
  /\ Commit(heap, Delete(sessionProgress, req[r].session),
            [req EXCEPT ![r] = [@ EXCEPT !.pc = "done", !.response = "500",
                                         !.cause = "ModelLoad"]],
            disk)

\* get_generator returned: "preparing" is reported and generate_grid handed
\* to a thread with input, output dir, sprite path, grid_size, batch size 8,
\* progress_callback and quadrant_ready_callback.  r2 and cf say which
\* storage configurations the request carries; nothing reads them before the
\* callbacks defined here, so they are recorded here.
StartGeneration(r, r2, cf) ==
  /\ req[r].pc = "load"
  /\ Cardinality({p \in Requests : Started(p)}) < MaxPipelineRuns
  /\ LET hm == LoopProgress(heap, sessionProgress, req[r].session,
                            "preparing", 0, TotalImages)
     IN Commit(hm[1], hm[2],
               [req EXCEPT ![r] = [@ EXCEPT !.pc = "gen", !.w = W("call", 0),
                                           !.r2 = r2, !.cf = cf]], disk)

\* The call generate_grid(input, output_dir, sprite_output, grid_size, 8,
\* progress_callback, quadrant_ready_callback) against
\* def generate_grid(self, input_image_path, output_dir, sprite_output,
\*                   grid_size=30, batch_size=8, progress_callback=None):
\* one positional argument too many, TypeError in the worker thread.
GenerateGridTypeError(r) ==
  /\ req[r].pc = "gen"
  /\ req[r].w = W("call", 0)
  /\ Commit(heap, sessionProgress,
            [req EXCEPT ![r] = [@ EXCEPT !.w = W("raised", 0), !.werr = "TypeError"]],
            disk)

\* A handler that goes on after the worker raised as if it had returned (C9
\* tells it from GenerationFailed).
GenerationFailedBad(r) ==
  /\ req[r].pc = "gen"
  /\ req[r].w = W("raised", 0)
  /\ Commit(heap, sessionProgress,
            [req EXCEPT ![r] = [@ EXCEPT !.w = W("ret", 0)]], disk)

\* except Exception around the generate_grid await: del the record, 500.
GenerationFailed(r) ==
  /\ req[r].pc = "gen"
  /\ req[r].w = W("raised", 0)
  /\ Commit(heap, Delete(sessionProgress, req[r].session),
            [req EXCEPT ![r] = [@ EXCEPT !.pc = "done", !.response = "500",
                                         !.cause = "GenerationFailed"]],
            disk)

Next ==
  \E r \in Requests :
    \/ \E s \in Sessions, decodes \in BOOLEAN : Arrive(r, s, decodes)
    \/ GetGeneratorFails(r)
    \/ \E r2, cf \in BOOLEAN : StartGeneration(r, r2, cf)
    \/ GenerateGridTypeError(r)
    \/ GenerationFailed(r)

Spec == Init /\ [][Next]_vars

\* ------------------------------------------------- the worker, bridged
\* Batches of the generation loop: range(0, total_images, batch_size).
NumBatches == (TotalImages + BatchSize - 1) \div BatchSize

Min(a, b) == IF a < b THEN a ELSE b

\* The progress report the worker makes at position w: << stage, current, total >>.
ReportAt(w) ==
  CASE w.k = "prep" -> << "preparing", 0, TotalImages >>
    [] w.k = "gen" -> << "generating", Min(w.i * BatchSize, TotalImages), TotalImages >>
    [] w.k = "bg" -> << "removing_bg", w.i, TotalImages >>
    [] w.k = "save" -> << "saving", 0, NumQuadrants >>
    [] w.k = "stitch" -> << "stitching", w.i, NumQuadrants >>

\* The position after the callback at w has returned.
AfterCallback(w, rb) ==
  CASE w.k = "prep" -> W("gen", 0)
    [] w.k = "gen" ->
         IF w.i * BatchSize >= TotalImages
         THEN (IF rb THEN W("bg", 0) ELSE W("save", 0))
         ELSE W("gen", w.i + 1)
    [] w.k = "bg" -> IF w.i = TotalImages THEN W("save", 0) ELSE W("bg", w.i + 1)
    [] w.k = "save" -> W("stitch", 0)
    [] w.k = "stitch" -> W("ready", w.i)
    [] w.k = "ready" ->
         IF w.i = NumQuadrants - 1 THEN W("meta", 0) ELSE W("stitch", w.i + 1)

\* What can fail in the computation that precedes the callback at w:
\* prepare_source before the first "generating" report, generate_batch before
\* each later one, remove_background before each matting tick, compositing
\* (tiler and fallback) before each quadrant-ready notification.
FaultAt(w) ==
  CASE w.k = "gen" /\ w.i = 0 -> "NoFaceDetected"
    [] w.k = "gen" /\ w.i > 0 -> "RenderFailure"
    [] w.k = "bg" /\ w.i > 0 -> "MattingFailure"
    [] w.k = "ready" -> "CompositingFailure"
    [] OTHER -> "none"

InCallback(w) == w.k \in {"prep", "gen", "bg", "save", "stitch", "ready"}

\* generate_grid entered with the seventh argument bound to
\* quadrant_ready_callback.
WorkerEnter(r) ==
  /\ req[r].pc = "gen"
  /\ req[r].w = W("call", 0)
  /\ Commit(heap, sessionProgress, [req EXCEPT ![r] = [@ EXCEPT !.w = W("prep", 0)]], disk)

\* The computation before the callback at the worker's position raises.
WorkerRaises(r) ==
  /\ req[r].pc = "gen"
  /\ req[r].pd = NoObj
  /\ InCallback(req[r].w)
  /\ FaultAt(req[r].w) # "none"
  /\ Commit(heap, sessionProgress,
            [req EXCEPT ![r] = [@ EXCEPT !.w = W("raised", 0), !.werr = FaultAt(req[r].w)]],
            disk)

\* A worker whose quadrant-ready callback waits for the upload it scheduled:
\* it enters no callback while an upload of its request is in flight (C21
\* tells it from WorkerGet).
WorkerGetBad(r) ==
  /\ req[r].pc = "gen"
  /\ req[r].pd = NoObj
  /\ InCallback(req[r].w)
  /\ \A q \in Quadrants : req[r].uploads[q] # "inflight"
  /\ Commit(heap, sessionProgress, [req EXCEPT ![r] = [@ EXCEPT !.pd = sessionProgress[req[r].session]]], disk)

\* First half of a callback in the worker thread:
\* progress_data = _SESSION_PROGRESS.get(req.session_id, {}).
\* Before quadrant-ready(q) the sprite file of quadrant q has been written.
WorkerGet(r) ==
  /\ req[r].pc = "gen"
  /\ req[r].pd = NoObj
  /\ InCallback(req[r].w)
  /\ LET s == req[r].session
         present == sessionProgress[s] # NoObj
         o == IF present THEN sessionProgress[s] ELSE Alloc
         h1 == IF present THEN heap ELSE [heap EXCEPT ![o] = EmptyDict]
         d1 == IF req[r].w.k = "ready"
               THEN [disk EXCEPT ![s].sprites = @ \cup {req[r].w.i}]
               ELSE disk
     IN Commit(h1, sessionProgress, [req EXCEPT ![r] = [@ EXCEPT !.pd = o]], d1)

\* Second half of progress_callback: update the dict, mark the quadrant when
\* the stage is "stitching" of 8, store the dict under the session id.  rb is
\* the generator's remove_background, read where the generation loop ends.
WorkerProgressApply(r, rb) ==
  /\ req[r].pc = "gen"
  /\ req[r].pd # NoObj
  /\ req[r].w.k \in {"prep", "gen", "bg", "save", "stitch"}
  /\ LET o == req[r].pd
         rep == ReportAt(req[r].w)
     IN Commit([heap EXCEPT ![o] = ProgressUpdate(@, rep[1], rep[2], rep[3])],
               [sessionProgress EXCEPT ![req[r].session] = o],
               [req EXCEPT ![r] = [@ EXCEPT !.pd = NoObj,
                                           !.w = AfterCallback(req[r].w, rb)]],
               disk)

\* The storage backend a request's uploads go to: R2 takes precedence.
UploadTargetBad(r2, cf) == IF cf THEN "cf" ELSE IF r2 THEN "r2" ELSE "none"
UploadTarget(r2, cf) == IF r2 THEN "r2" ELSE IF cf THEN "cf" ELSE "none"

\* The status quadrant_ready_callback writes.
ReadyStatus(target) == IF target = "none" THEN QUADRANT_DONE ELSE QUADRANT_UPLOADING

\* Second half of quadrant_ready_callback(quadrant_idx, file_path): with a
\* target, mark the quadrant uploading and schedule its upload on the loop;
\* without one, mark it done.  The dict is stored back only when it has
\* "quadrants".
WorkerReadyApply(r) ==
  /\ req[r].pc = "gen"
  /\ req[r].pd # NoObj
  /\ req[r].w.k = "ready"
  /\ Cardinality({q \in Quadrants : req[r].uploads[q] = "inflight"}) < MaxInFlight
  /\ LET o == req[r].pd
         q == req[r].w.i
         s == req[r].session
         target == UploadTarget(req[r].r2, req[r].cf)
         marked == HasQuadrants(heap[o]) /\ q < NumQuadrants
     IN Commit([heap EXCEPT ![o] = SetQuadrant(@, q, ReadyStatus(target))],
               IF marked THEN [sessionProgress EXCEPT ![s] = o] ELSE sessionProgress,
               [req EXCEPT ![r] =
                  [@ EXCEPT !.pd = NoObj,
                            !.w = AfterCallback(req[r].w, FALSE),
                            !.notified = Append(@, q),
                            !.uploads[q] = IF target = "none" THEN "none" ELSE "inflight",
                            !.sentTo = IF target = "none" THEN @ ELSE @ \cup {target}]],
               disk)

\* metadata.json is written after both resolutions; generate_grid returns.
WorkerWritesMetadata(r) ==
  /\ req[r].pc = "gen"
  /\ req[r].w = W("meta", 0)
  /\ Commit(heap, sessionProgress,
            [req EXCEPT ![r] = [@ EXCEPT !.w = W("ret", 0)]],
            [disk EXCEPT ![req[r].session].metadata = Metadata(GridSize)])

\* ------------------------------------------------------- upload tasks
Failures ==
  Cardinality({x \in Requests \X Quadrants : req[x[1]].uploads[x[2]] = "fail"})

\* An upload task that stores the dict it fetched whether or not it has
\* "quadrants" (C29 tells it from UploadCompletes).
UploadCompletesBad(r, q, success) ==
  /\ req[r].uploads[q] = "inflight"
  /\ success \/ Failures < MaxUploadFailures
  /\ LET s == req[r].session
         hm == IF sessionProgress[s] # NoObj
               THEN << heap, sessionProgress >>
               ELSE << [heap EXCEPT ![Alloc] = EmptyDict],
                       [sessionProgress EXCEPT ![s] = Alloc] >>
         o == hm[2][s]
     IN Commit([hm[1] EXCEPT ![o] = SetQuadrant(@, q, OutcomeStatus(success))],
               hm[2],
               [req EXCEPT ![r] =
                  [@ EXCEPT !.uploads[q] = IF success THEN "ok" ELSE "fail",
                            !.unrecorded = @ \/ ~HasQuadrants(hm[1][o])]],
               disk)

\* upload_quadrant_to_r2 / upload_quadrant_to_cf after its await: the outcome
\* is written into the record the map holds now, if it has "quadrants";
\* unrecorded tells that a task of the request found none.
\* upload_to_r2 and upload_to_cloudflare catch every exception and return False.
UploadCompletes(r, q, success) ==
  /\ req[r].uploads[q] = "inflight"
  /\ success \/ Failures < MaxUploadFailures
  /\ LET s == req[r].session
         o == sessionProgress[s]
         found == o # NoObj /\ HasQuadrants(heap[o])
     IN Commit(IF found
               THEN [heap EXCEPT ![o] = SetQuadrant(@, q, OutcomeStatus(success))]
               ELSE heap,
               sessionProgress,
               [req EXCEPT ![r] =
                  [@ EXCEPT !.uploads[q] = IF success THEN "ok" ELSE "fail",
                            !.unrecorded = @ \/ ~found]],
               disk)

\* -------------------------------------------- the handler, after the worker
MetadataExists(d, s) == d[s].metadata # << >>
MetadataReadable(d, s) == Len(d[s].metadata) = 5

\* What the job directory holds when the handler next looks at it: the
\* metadata.json of a finished run may have been removed ("missing") or
\* truncated ("corrupt") by then; the handler checks for both.
Seen(d, s, fs) ==
  IF fs = "ok" \/ ~MetadataReadable(d, s)
  THEN d
  ELSE [d EXCEPT ![s].metadata = IF fs = "missing" THEN << >> ELSE << 0 >>]

FsEvents == {"ok", "missing", "corrupt"}

\* A response that reports cdn_uploaded whatever was configured (C30 tells
\* it from ResponseCdnUploaded).
ResponseCdnUploadedBad(uploaded_to_cdn, uploaded_to_r2) == TRUE

\* "cdn_uploaded": uploaded_to_cdn or uploaded_to_r2
ResponseCdnUploaded(uploaded_to_cdn, uploaded_to_r2) == uploaded_to_cdn \/ uploaded_to_r2

\* progress_callback("complete", ...), then the metadata check and the
\* response.  Until the response r2_uploaded and cdn_uploaded of the request
\* hold the locals uploaded_to_r2 and uploaded_to_cdn.
\* Returns << heap, map, request >>.
Respond(rr, d) ==
  LET s == rr.session
      hm == LoopProgress(heap, sessionProgress, s, "complete", TotalImages, TotalImages)
      out == IF ~MetadataExists(d, s)
             THEN [rr EXCEPT !.pc = "done", !.response = "500", !.cause = "MissingMetadata"]
             ELSE IF ~MetadataReadable(d, s)
             THEN [rr EXCEPT !.pc = "done", !.response = "500", !.cause = "UnreadableMetadata"]
             ELSE [rr EXCEPT !.pc = "done", !.response = "complete",
                             !.metadata = d[s].metadata,
                             !.cdn_uploaded = ResponseCdnUploaded(rr.cdn_uploaded,
                                                                  rr.r2_uploaded)]
  IN << hm[1], hm[2], out >>

\* A handler that skips the final uploads (C12 tells it from FinalUploads).
FinalUploadsBad(h, m, rr, d) == Respond(rr, d)

\* From "Upload input image and metadata to storage" to the next await, or
\* to the response when no target is configured.
FinalUploads(h, m, rr, d) ==
  LET target == UploadTarget(rr.r2, rr.cf)
  IN IF target = "none"
     THEN Respond(rr, d)
     ELSE << h, m, [rr EXCEPT !.pc = "final1", !.finals = @ \cup {"input.jpg"},
                              !.sentTo = @ \cup {target}] >>

\* generate_grid returned: with upload tasks, report "uploading" and await
\* them all; with none, go on to the final uploads.
GenerationReturned(r, fs) ==
  /\ req[r].pc = "gen"
  /\ req[r].w = W("ret", 0)
  /\ LET scheduled == {q \in Quadrants : req[r].uploads[q] # "none"}
         rr == [req[r] EXCEPT !.w = NoW]
         d == Seen(disk, rr.session, fs)
     IN IF scheduled # {}
        THEN LET hm == LoopProgress(heap, sessionProgress, rr.session,
                                    "uploading", 0, Cardinality(scheduled))
             IN Commit(hm[1], hm[2], [req EXCEPT ![r] = [rr EXCEPT !.pc = "gather"]], disk)
        ELSE LET f == FinalUploads(heap, sessionProgress, rr, d)
             IN Commit(f[1], f[2], [req EXCEPT ![r] = f[3]], d)

\* A handler that goes on to the final uploads without awaiting the upload
\* tasks (C2 tells it from GatherReturns).
GatherReturnsBad(r) ==
  /\ req[r].pc = "gather"
  /\ LET f == FinalUploads(heap, sessionProgress, req[r], disk)
     IN Commit(f[1], f[2], [req EXCEPT ![r] = f[3]], disk)

\* asyncio.gather(*async_futures, return_exceptions=True) returned: every
\* scheduled upload has finished.
GatherReturns(r) ==
  /\ req[r].pc = "gather"
  /\ \A q \in Quadrants : req[r].uploads[q] # "inflight"
  /\ LET f == FinalUploads(heap, sessionProgress, req[r], disk)
     IN Commit(f[1], f[2], [req EXCEPT ![r] = f[3]], disk)

\* upload_to_r2 / upload_to_cloudflare returned False for file f.
FailedFinal(rr, f, ok) == IF ok THEN rr ELSE [rr EXCEPT !.finalsFailed = @ \cup {f}]

\* The upload of input.jpg returned, with success or not (its result is not
\* looked at).  R2: the metadata upload follows if the file exists.  Legacy
\* CDN: nothing follows.
InputUploadReturns(r, fs, ok) ==
  /\ req[r].pc = "final1"
  /\ LET d == Seen(disk, req[r].session, fs)
         rr == FailedFinal(req[r], "input.jpg", ok)
     IN IF rr.r2 /\ MetadataExists(d, rr.session)
        THEN Commit(heap, sessionProgress,
                    [req EXCEPT ![r] = [rr EXCEPT !.pc = "final2",
                                                 !.finals = @ \cup {"metadata.json"}]],
                    d)
        ELSE LET f == Respond([rr EXCEPT !.r2_uploaded = rr.r2,
                                         !.cdn_uploaded = ~rr.r2], d)
             IN Commit(f[1], f[2], [req EXCEPT ![r] = f[3]], d)

\* The upload of metadata.json to R2 returned, with success or not.
MetadataUploadReturns(r, fs, ok) ==
  /\ req[r].pc = "final2"
  /\ LET d == Seen(disk, req[r].session, fs)
         rr == FailedFinal(req[r], "metadata.json", ok)
         f == Respond([rr EXCEPT !.r2_uploaded = TRUE], d)
     IN Commit(f[1], f[2], [req EXCEPT ![r] = f[3]], d)

NextBridge ==
  \E r \in Requests :
       \/ \E s \in Sessions, decodes \in BOOLEAN : Arrive(r, s, decodes)
       \/ GetGeneratorFails(r)
       \/ \E r2, cf \in BOOLEAN : StartGeneration(r, r2, cf)
       \/ WorkerEnter(r)
       \/ WorkerRaises(r)
       \/ WorkerGet(r)
       \/ \E rb \in BOOLEAN : WorkerProgressApply(r, rb)
       \/ WorkerReadyApply(r)
       \/ WorkerWritesMetadata(r)
       \/ GenerationFailed(r)
       \/ \E fs \in FsEvents : GenerationReturned(r, fs)
       \/ GatherReturns(r)
       \/ \E fs \in FsEvents, ok \in BOOLEAN : InputUploadReturns(r, fs, ok)
       \/ \E fs \in FsEvents, ok \in BOOLEAN : MetadataUploadReturns(r, fs, ok)
       \/ \E q \in Quadrants, success \in BOOLEAN : UploadCompletes(r, q, success)

SpecBridge == Init /\ [][NextBridge]_vars

\* ------------------------------------------- generate_grid: pure parts
\* A rounding that truncates (C17 tells it from RoundHalfEven).
RoundHalfEvenBad(n, d) == n \div d

\* Python's round() of the fraction n / d (n >= 0, d > 0): to the nearest
\* integer, a tie to the even one.
RoundHalfEven(n, d) ==
  LET q == n \div d
      r == n % d
  IN IF 2 * r < d THEN q
     ELSE IF 2 * r > d THEN q + 1
     ELSE IF q % 2 = 0 THEN q ELSE q + 1

\* values[i] = round(-15 + i * step, 2) with step = 30 / (grid_size - 1), in
\* units of 1/200 (i counted from 0).
AxisValue(gridSize, i) ==
  2 * (RoundHalfEven(2 * AxisHalf * (Unit \div 2) * i, gridSize - 1)
       - AxisHalf * (Unit \div 2))

\* values, as a sequence.
AxisValues(gridSize) == [i \in 1..gridSize |-> AxisValue(gridSize, i - 1)]

Max(a, b) == IF a > b THEN a ELSE b

\* A parameter dict whose pupil_y keeps the sign of y (C18 tells it from
\* GazeParams).
GazeParamsBad(x, y) ==
  [x |-> x, y |-> y,
   pupil_x |-> x, pupil_y |-> y,
   head_pitch |-> y \div 2, head_yaw |-> (x \div 2) * (-1),
   eyebrow |-> IF y * (-1) > 0 THEN y * (-1) ELSE 0]

\* The dict appended for one (x, y).
GazeParams(x, y) ==
  [x |-> x, y |-> y,
   pupil_x |-> x, pupil_y |-> y * (-1),
   head_pitch |-> y \div 2, head_yaw |-> (x \div 2) * (-1),
   eyebrow |-> Max(0, y * (-1))]

\* The inner loop, for x in values: all_params.append({...}), for one y: the
\* dicts it appends, in the order of values.
RowParams(values, y) == [j \in 1..Len(values) |-> GazeParams(values[j], y)]

\* The outer loop, for y in values, from the i-th value on.
RECURSIVE AppendRows(_, _)
AppendRows(values, i) ==
  IF i > Len(values) THEN << >>
  ELSE RowParams(values, values[i]) \o AppendRows(values, i + 1)

\* all_params
BuildParams(gridSize) == AppendRows(AxisValues(gridSize), 1)

\* values.index(v): the first position of v, counted from 0.
ValueIndex(values, v) ==
  (CHOOSE i \in 1..Len(values) :
     values[i] = v /\ \A j \in 1..(i - 1) : values[j] # v) - 1

\* A key taken as (col, row) (C27 tells it from GridKey).
GridKeyBad(values, generated, k) ==
  << ValueIndex(values, generated[k][1]), ValueIndex(values, generated[k][2]) >>

\* The key under which the k-th generated image is stored:
\* (row, col) = (values.index(y_val), values.index(x_val)).
GridKey(values, generated, k) ==
  << ValueIndex(values, generated[k][2]), ValueIndex(values, generated[k][1]) >>

\* for x_val, y_val, img in generated_images: image_grid[(row, col)] = img,
\* for the images at positions lo..hi: the dict these assignments make.  A
\* key assigned twice keeps the later image (f @@ g keeps f where both are
\* defined).
RECURSIVE StoreImages(_, _, _, _)
StoreImages(values, generated, lo, hi) ==
  IF lo = hi
  THEN GridKey(values, generated, lo) :> generated[lo][3]
  ELSE LET mid == (lo + hi) \div 2
       IN StoreImages(values, generated, mid + 1, hi)
            @@ StoreImages(values, generated, lo, mid)

\* image_grid
ImageGrid(values, generated) ==
  IF generated = << >> THEN << >>
  ELSE StoreImages(values, generated, 1, Len(generated))

\* (row, col) in image_grid
InImageGrid(imageGrid, rc) == rc \in DOMAIN imageGrid

\* An index map that scales by grid_size / target_grid_size (C31 tells it
\* from IndexMap).
IndexMapBad(gridSize, target) ==
  IF target = gridSize
  THEN [i \in 1..gridSize |-> i - 1]
  ELSE [i \in 1..target |-> RoundHalfEven((i - 1) * gridSize, target - 1)]

\* index_map of create_quadrant_ffmpeg (positions counted from 0 are kept as
\* list positions 1..target).
IndexMap(gridSize, target) ==
  IF target = gridSize
  THEN [i \in 1..gridSize |-> i - 1]
  ELSE [i \in 1..target |-> RoundHalfEven((i - 1) * (gridSize - 1), target - 1)]

\* The target grid size and the (row_start, col_start) of quadrant index q:
\* 0..3 are q0..q3 of grid_size, 4..7 are q0..q3 of mobile_grid_size.
TargetOf(gridSize, q) == IF q < 4 THEN gridSize ELSE MobileGridSize
HalfOf(gridSize, q) == TargetOf(gridSize, q) \div 2
RowStart(gridSize, q) == IF (q % 4) \in {2, 3} THEN HalfOf(gridSize, q) ELSE 0
ColStart(gridSize, q) == IF (q % 4) \in {1, 3} THEN HalfOf(gridSize, q) ELSE 0

\* The local (row, col) pairs one quadrant walks: range(half) x range(half).
LocalCells(half) == (0..(half - 1)) \X (0..(half - 1))

\* (target_row, target_col) for local (row, col) of quadrant q.
TargetCell(gridSize, q, rc) ==
  << RowStart(gridSize, q) + rc[1], ColStart(gridSize, q) + rc[2] >>

\* The grid cells quadrant q addresses.
QuadrantCells(gridSize, q) ==
  { TargetCell(gridSize, q, rc) : rc \in LocalCells(HalfOf(gridSize, q)) }

\* (source_row, source_col) = (index_map[target_row], index_map[target_col]).
SourceCell(indexMap, targetCell) ==
  << indexMap[targetCell[1] + 1], indexMap[targetCell[2] + 1] >>

\* A frame walk that counts frames down the columns (C15 tells it from
\* FrameNum).
FrameNumBad(half, rc) == rc[2] * half + rc[1]

\* frame_num when the row-major walk is at local (row, col): it is counted
\* up once per cell, whether or not the cell is in image_grid.
FrameNum(half, rc) == rc[1] * half + rc[2]

\* The frames create_quadrant_ffmpeg saves for quadrant q:
\* << frame_num, source cell >> for the cells that are in image_grid.
Frames(gridSize, q, imageGrid) ==
  LET half == HalfOf(gridSize, q)
      indexMap == IndexMap(gridSize, TargetOf(gridSize, q))
  IN { << FrameNum(half, rc), SourceCell(indexMap, TargetCell(gridSize, q, rc)) >> :
         rc \in { x \in LocalCells(half) :
                    InImageGrid(imageGrid, SourceCell(indexMap, TargetCell(gridSize, q, x))) } }

\* ffmpeg -vf tile=<half>x<half>: frame n goes to column n mod half of row
\* n div half.  A sprite is the set of << y_pos, x_pos, source cell >>.
TilerSprite(gridSize, q, imageGrid) ==
  LET half == HalfOf(gridSize, q)
  IN { << (f[1] \div half) * ImgH, (f[1] % half) * ImgW, f[2] >> :
         f \in Frames(gridSize, q, imageGrid) }

\* create_quadrant_pil: the cell of local (row, col) is blitted at
\* (local_row * img_h, local_col * img_w).
PilSprite(gridSize, q, imageGrid) ==
  LET half == HalfOf(gridSize, q)
      indexMap == IndexMap(gridSize, TargetOf(gridSize, q))
  IN { << rc[1] * ImgH, rc[2] * ImgW, SourceCell(indexMap, TargetCell(gridSize, q, rc)) >> :
         rc \in { x \in LocalCells(half) :
                    InImageGrid(imageGrid, SourceCell(indexMap, TargetCell(gridSize, q, x))) } }

\* -------------------------------- generate_grid run from the command line
\* main() calls generate_grid with keyword arguments and no
\* progress_callback: the reports are printed and nothing is called back.
GridSizes == 2..MaxGridSize

\* What the ffmpeg call of one quadrant can come to: return code 0, a
\* non-zero return code, FileNotFoundError, another exception of
\* subprocess.run (PermissionError, ...); and, after a non-zero return code
\* or FileNotFoundError, an exception of the PIL fallback.
TilerOutcomes == {"ok", "nonzero", "notfound", "error", "pilfail"}

\* The state of a run at the call: grid_size, remove_background, batch_size.
StartRun(gridSize, rb, batchSize) ==
  [pc |-> "prepare", gridSize |-> gridSize, rb |-> rb, batchSize |-> batchSize,
   params |-> << >>, i |-> 0, current |-> 0, generated |-> << >>, bg |-> 0,
   imageGrid |-> << >>, q |-> 0,
   sprites |-> [q \in Quadrants |-> {}], written |-> {},
   tilerFailed |-> {}, fallback |-> {},
   metadata |-> << >>, err |-> "none"]

InitGrid ==
  /\ heap = [o \in ObjIds |-> FreeCell]
  /\ sessionProgress = [s \in Sessions |-> NoObj]
  /\ req = [r \in Requests |-> IdleRequest]
  /\ disk = [s \in Sessions |-> NoFiles]
  /\ run \in { StartRun(gridSize, rb, BatchSize) : gridSize \in GridSizes, rb \in BOOLEAN }
  /\ polled = NoAnswer
  /\ generator = NoGenerator
  /\ loader = [t \in Loaders |-> IdleLoader]

GridStep(next) ==
  /\ run' = next
  /\ UNCHANGED << heap, sessionProgress, req, disk, polled, generator, loader >>

Raise(fault) == [run EXCEPT !.pc = "raised", !.err = fault]

\* prepare_source: ValueError when no face is found.
PrepareSource(ok) ==
  /\ run.pc = "prepare"
  /\ GridStep(IF ok THEN [run EXCEPT !.pc = "params"] ELSE Raise("NoFaceDetected"))

\* The parameter grid.
BuildAllParams ==
  /\ run.pc = "params"
  /\ GridStep([run EXCEPT !.pc = "batch", !.params = BuildParams(run.gridSize)])

\* A loop that leaves out a last batch shorter than batch_size (C26 tells it
\* from BatchKeys).
BatchKeysBad(params, i, batchSize) ==
  [k \in 1..(IF i + batchSize <= Len(params) THEN batchSize ELSE 0) |->
     << params[i + k].x, params[i + k].y, i + k - 1 >>]

\* generated_images.append((params['x'], params['y'], out_img)) for the
\* batch all_params[i:i+batch_size]; out_img is written as the list position
\* (from 0) of the parameters it was rendered from.
BatchKeys(params, i, batchSize) ==
  [k \in 1..(Min(i + batchSize, Len(params)) - i) |->
     << params[i + k].x, params[i + k].y, i + k - 1 >>]

\* One turn of for i in range(0, total_images, batch_size); after the last,
\* on to background removal or to the sprite sheets.
GenerateBatch(ok) ==
  /\ run.pc = "batch"
  /\ LET total == run.gridSize * run.gridSize
         batch == BatchKeys(run.params, run.i, run.batchSize)
         gen == run.generated \o batch
         last == run.i + run.batchSize >= total
     IN GridStep(IF ~ok THEN Raise("RenderFailure")
                 ELSE [run EXCEPT !.generated = gen,
                                  !.current = run.i + Len(batch),
                                  !.i = run.i + run.batchSize,
                                  !.pc = IF ~last THEN "batch"
                                         ELSE IF run.rb THEN "bg" ELSE "grid"])

\* One turn of the background removal loop.
RemoveBackground(ok) ==
  /\ run.pc = "bg"
  /\ GridStep(IF ~ok THEN Raise("MattingFailure")
              ELSE [run EXCEPT !.bg = run.bg + 1,
                               !.pc = IF run.bg + 1 = Len(run.generated)
                                      THEN "grid" ELSE "bg"])

\* image_grid[(row, col)] = img for every generated image.
BuildImageGrid ==
  /\ run.pc = "grid"
  /\ GridStep([run EXCEPT
       !.pc = "quad",
       !.imageGrid = ImageGrid(AxisValues(run.gridSize), run.generated)])

\* A run that writes the metadata after the sprites of the first resolution
\* (C13 tells it from AfterQuadrant).
AfterQuadrantBad(q) == IF q >= 3 THEN "meta" ELSE "quad"

\* After quadrant q: the next quadrant, or the metadata after the last one.
AfterQuadrant(q) == IF q = NumQuadrants - 1 THEN "meta" ELSE "quad"

\* The ffmpeg failures after which create_quadrant_pil is called.
Recovered(outcome) == outcome \in {"nonzero", "notfound", "pilfail"}

\* One turn of the quadrant loop of create_quadrant_ffmpeg (quadrants 0..3
\* in the first call, 4..7 in the second): frames, ffmpeg, fallback.
CompositeQuadrant(outcome) ==
  /\ run.pc = "quad"
  /\ outcome = "ok" \/ Cardinality(run.tilerFailed) < MaxTilerFailures
  /\ LET q == run.q
         failed == [run EXCEPT !.tilerFailed = @ \cup {q}]
         done == [run EXCEPT !.written = @ \cup {q},
                             !.q = IF q = NumQuadrants - 1 THEN q ELSE q + 1,
                             !.pc = AfterQuadrant(q)]
     IN GridStep(
          IF outcome = "ok"
          THEN [done EXCEPT !.sprites[q] = TilerSprite(run.gridSize, q, run.imageGrid)]
          ELSE IF ~Recovered(outcome)
          THEN [failed EXCEPT !.pc = "raised", !.err = "TilerLaunchError"]
          ELSE IF outcome = "pilfail"
          THEN [failed EXCEPT !.pc = "raised", !.err = "FallbackFailure"]
          ELSE [done EXCEPT !.tilerFailed = @ \cup {q}, !.fallback = @ \cup {q},
                            !.sprites[q] = PilSprite(run.gridSize, q, run.imageGrid)])

\* metadata.json, then return.
WriteMetadata ==
  /\ run.pc = "meta"
  /\ GridStep([run EXCEPT !.pc = "ret", !.metadata = Metadata(run.gridSize)])

NextGrid ==
  \/ \E ok \in BOOLEAN : PrepareSource(ok)
  \/ BuildAllParams
  \/ \E ok \in BOOLEAN : GenerateBatch(ok)
  \/ \E ok \in BOOLEAN : RemoveBackground(ok)
  \/ BuildImageGrid
  \/ \E outcome \in TilerOutcomes : CompositeQuadrant(outcome)
  \/ WriteMetadata

SpecGrid == InitGrid /\ [][NextGrid]_vars

\* The same call with --batch-size given.  The thread that runs the batch
\* loop is scheduled, and each generate_batch call returns or raises.
BatchSizes == 1..MaxBatchSize
BatchGridSizes == 2..MaxBatchGridSize

InitBatch ==
  /\ heap = [o \in ObjIds |-> FreeCell]
  /\ sessionProgress = [s \in Sessions |-> NoObj]
  /\ req = [r \in Requests |-> IdleRequest]
  /\ disk = [s \in Sessions |-> NoFiles]
  /\ run \in { StartRun(gridSize, rb, batchSize) :
                 gridSize \in BatchGridSizes, rb \in BOOLEAN, batchSize \in BatchSizes }
  /\ polled = NoAnswer
  /\ generator = NoGenerator
  /\ loader = [t \in Loaders |-> IdleLoader]

BatchTurn == \E ok \in BOOLEAN : GenerateBatch(ok)

SpecBatch == InitBatch /\ [][NextGrid]_vars /\ WF_vars(BatchTurn)

\* ---------------------------------------------------------- observers
\* GET /progress/{session_id}: the record, or the not-found answer.
get_progress(s) ==
  IF sessionProgress[s] # NoObj
  THEN heap[sessionProgress[s]]
  ELSE [stage |-> "unknown", current |-> 0, total |-> 0, quadrants |-> << >>, quadrant |-> -1]

\* A poll that takes the record out of the map (C20 tells it from
\* GetProgress).
GetProgressBad(s) ==
  /\ polled' = [session |-> s, body |-> get_progress(s)]
  /\ sessionProgress' = [sessionProgress EXCEPT ![s] = NoObj]
  /\ UNCHANGED << heap, req, disk, run, generator, loader >>

\* One GET /progress/{session_id}, for a session id in use: the handler has
\* no await, it is one stretch of the event loop.
GetProgress(s) ==
  /\ polled' = [session |-> s, body |-> get_progress(s)]
  /\ UNCHANGED << heap, sessionProgress, req, disk, run, generator, loader >>

\* /generate as in Spec, with clients polling /progress at any time.
NextPoll ==
  \/ Next
  \/ \E s \in Sessions : GetProgress(s)

SpecPoll == Init /\ [][NextPoll]_vars

\* ------------------------------------------------------- get_generator
\* get_generator(remove_background), run by asyncio.to_thread in a worker
\* thread of its own for each request.  There is no lock around it: the
\* threads interleave between any two reads or writes of _GENERATOR.
LoaderAt(t, pc) == loader[t].pc = pc

LoaderGoes(t, pc) ==
  /\ loader' = [loader EXCEPT ![t] = [@ EXCEPT !.pc = pc]]
  /\ UNCHANGED << heap, sessionProgress, req, disk, run, polled, generator >>

\* asyncio.to_thread(get_generator, req.remove_background)
LoaderCall(t, rb) ==
  /\ loader[t].pc \in {"idle", "returned", "raised"}
  /\ loader[t].calls < MaxLoads
  /\ loader' = [loader EXCEPT ![t] =
                  [pc |-> "check", calls |-> loader[t].calls + 1,
                   remove_background |-> rb, ret |-> NoGenerator, err |-> "none"]]
  /\ UNCHANGED << heap, sessionProgress, req, disk, run, polled, generator >>

\* if _GENERATOR is not None:
LoaderCheck(t) ==
  /\ LoaderAt(t, "check")
  /\ LoaderGoes(t, IF generator # NoGenerator THEN "compare" ELSE "test")

\* if _GENERATOR.remove_background != remove_background: the global is read
\* again, and None has no attribute remove_background.
LoaderCompare(t) ==
  /\ LoaderAt(t, "compare")
  /\ loader' = [loader EXCEPT ![t] =
                  IF generator = NoGenerator
                  THEN [@ EXCEPT !.pc = "raised", !.err = "AttributeError"]
                  ELSE [@ EXCEPT !.pc =
                          IF generator.remove_background # loader[t].remove_background
                          THEN "reset" ELSE "test"]]
  /\ UNCHANGED << heap, sessionProgress, req, disk, run, polled, generator >>

\* _GENERATOR = None
LoaderReset(t) ==
  /\ LoaderAt(t, "reset")
  /\ generator' = NoGenerator
  /\ loader' = [loader EXCEPT ![t] = [@ EXCEPT !.pc = "test"]]
  /\ UNCHANGED << heap, sessionProgress, req, disk, run, polled >>

\* if _GENERATOR is None:
LoaderTest(t) ==
  /\ LoaderAt(t, "test")
  /\ LoaderGoes(t, IF generator = NoGenerator THEN "build" ELSE "return")

\* _GENERATOR = GazeGridGeneratorWeb(device='cuda', remove_background=...):
\* the constructor loads the models, or raises.
LoaderBuild(t, ok) ==
  /\ LoaderAt(t, "build")
  /\ generator' = IF ok THEN Instance(t, loader[t].calls, loader[t].remove_background)
                        ELSE generator
  /\ loader' = [loader EXCEPT ![t] =
                  IF ok THEN [@ EXCEPT !.pc = "return"]
                  ELSE [@ EXCEPT !.pc = "raised", !.err = "LoadError"]]
  /\ UNCHANGED << heap, sessionProgress, req, disk, run, polled >>

\* return _GENERATOR
LoaderReturn(t) ==
  /\ LoaderAt(t, "return")
  /\ loader' = [loader EXCEPT ![t] = [@ EXCEPT !.pc = "returned", !.ret = generator]]
  /\ UNCHANGED << heap, sessionProgress, req, disk, run, polled, generator >>

NextGen ==
  \/ \E t \in Loaders, rb \in BOOLEAN : LoaderCall(t, rb)
  \/ \E t \in Loaders : LoaderCheck(t)
  \/ \E t \in Loaders : LoaderCompare(t)
  \/ \E t \in Loaders : LoaderReset(t)
  \/ \E t \in Loaders : LoaderTest(t)
  \/ \E t \in Loaders, ok \in BOOLEAN : LoaderBuild(t, ok)
  \/ \E t \in Loaders : LoaderReturn(t)

SpecGen == Init /\ [][NextGen]_vars

\* The status of quadrant q a poll of session s shows.
QuadrantStatus(s, q) ==
  IF HasQuadrants(get_progress(s)) THEN get_progress(s).quadrants[q + 1] ELSE "absent"

\* What the renderer, the matting step and the tiler can raise.
RendererFaults == {"NoFaceDetected", "RenderFailure", "MattingFailure", "CompositingFailure"}

\* The generate_grid call of request r has ended (it returned or it raised).
WorkerEnded(r) == Started(r) /\ req[r].w.k \in {"raised", "ret", "idle"}

\* Request r got past the payload and the model load, its renderer raised
\* nothing, and the metadata file was there to be read.
CleanRun(r) ==
  /\ Started(r)
  /\ req[r].werr \notin RendererFaults
  /\ req[r].cause \notin {"MissingMetadata", "UnreadableMetadata"}

\* The uploads of request r that are scheduled and not finished.
InFlight(r) == {q \in Quadrants : req[r].uploads[q] = "inflight"}

\* A step of the worker thread of request r.
WorkerStep(r) ==
  \/ WorkerEnter(r)
  \/ WorkerGet(r)
  \/ \E rb \in BOOLEAN : WorkerProgressApply(r, rb)
  \/ WorkerReadyApply(r)
  \/ WorkerWritesMetadata(r)

\* No other request has been issued for the session id of r.
OnlyRequestOn(r) ==
  \A p \in Requests \ {r} : req[p].session # req[r].session

\* The notifications of one run, in the order of QUADRANT_FILES.
AllQuadrants == [i \in 1..NumQuadrants |-> i - 1]

\* ------------------------------------------------------------- claims
\* C5. When a generate_grid call made by /generate has ended without a
\* renderer fault, it has raised one quadrant-ready notification for each of
\* the 8 sprite files, with the indices 0, 1, ..., 7 in that order.
C5_EveryFileNotified ==
  \A r \in Requests :
    (WorkerEnded(r) /\ req[r].werr \notin RendererFaults)
      => req[r].notified = AllQuadrants

\* C6. With a storage target, once the generate_grid call has ended without
\* a renderer fault every quadrant of the session's record has gone through
\* stitching and uploading: each status is uploading, done or error.
C6_PassedStitchingAndUploading ==
  \A r \in Requests :
    (/\ UploadTarget(req[r].r2, req[r].cf) # "none"
     /\ req[r].pc = "gen" /\ WorkerEnded(r)
     /\ req[r].werr \notin RendererFaults
     /\ OnlyRequestOn(r))
      => \A q \in Quadrants :
           QuadrantStatus(req[r].session, q)
             \in {QUADRANT_UPLOADING, QUADRANT_DONE, QUADRANT_ERROR}

\* C7. A request without storage target whose renderer succeeds is answered
\* "complete" with r2_uploaded false, metadata.totalImages = gridSize^2 and
\* metadata.quadrantSize = gridSize / 2, and all 8 quadrants of its record
\* are done at that point.
C7_NoTargetEndToEnd ==
  \A r \in Requests :
    (/\ req[r].pc = "done" /\ CleanRun(r)
     /\ UploadTarget(req[r].r2, req[r].cf) = "none"
     /\ OnlyRequestOn(r))
      => /\ req[r].response = "complete"
         /\ ~req[r].r2_uploaded
         /\ req[r].metadata = Metadata(GridSize)
         /\ req[r].metadata[5] = GridSize * GridSize
         /\ req[r].metadata[2] = GridSize \div 2
         /\ \A q \in Quadrants : QuadrantStatus(req[r].session, q) = QUADRANT_DONE

\* C8. A request with a storage target whose renderer succeeds is answered
\* "complete", and at that point each quadrant is done if its upload
\* succeeded and error if it failed.
C8_TargetEndToEnd ==
  \A r \in Requests :
    (/\ req[r].pc = "done" /\ CleanRun(r)
     /\ UploadTarget(req[r].r2, req[r].cf) # "none"
     /\ OnlyRequestOn(r))
      => /\ req[r].response = "complete"
         /\ \A q \in Quadrants :
              /\ req[r].uploads[q] \in {"ok", "fail"}
              /\ QuadrantStatus(req[r].session, q)
                   = OutcomeStatus(req[r].uploads[q] = "ok")

\* C10. A /generate whose payload does not decode leaves the session map as
\* it was: every session id shows the same record, or the same absence, as
\* before the request.
C10_InvalidPayloadLeavesMap ==
  [][\A r \in Requests :
       (req[r].pc = "new" /\ req'[r].cause = "InvalidInput")
         => \A s \in Sessions : get_progress(s)' = get_progress(s)]_vars


C13_MetadataAfterSprites ==
  run.metadata # << >> =>
    /\ run.written = Quadrants
    /\ \A q \in Quadrants : run.sprites[q] # {}

\* C13 happens: a run has returned with its metadata written, one of its
\* sprites made by the fallback.
C13_Witness ==
  /\ run.pc = "ret"
  /\ run.metadata = Metadata(run.gridSize)
  /\ run.fallback # {}

\* C14. However the ffmpeg call of a quadrant failed, the run does not raise
\* for it: the fallback has made that quadrant's sprite (unless the fallback
\* itself raised).
C14_TilerFailureRecovered ==
  run.err # "FallbackFailure" =>
    /\ run.err # "TilerLaunchError"
    /\ run.tilerFailed = run.fallback
    /\ run.tilerFailed \subseteq run.written

\* C15. For the quadrant the run is about to composite, ffmpeg's tiling of
\* the saved frames and the fallback's blitting give the same sprite: the
\* source cell (index_map[row_start + row], index_map[col_start + col]) at
\* pixel offset (row * img_h, col * img_w) for each local (row, col).
C15_SameLayout ==
  run.pc = "quad" =>
    LET q == run.q
        half == HalfOf(run.gridSize, q)
        indexMap == IndexMap(run.gridSize, TargetOf(run.gridSize, q))
        expected ==
          { << row * ImgH, col * ImgW,
               << indexMap[RowStart(run.gridSize, q) + row + 1],
                  indexMap[ColStart(run.gridSize, q) + col + 1] >> >> :
              row \in 0..(half - 1), col \in 0..(half - 1) }
    IN /\ TilerSprite(run.gridSize, q, run.imageGrid) = expected
       /\ PilSprite(run.gridSize, q, run.imageGrid) = expected
       /\ Cardinality(expected) = half * half

\* C15 happens: in one run a sprite was made by ffmpeg and another by the
\* fallback, and the mobile resolution has been reached.
C15_Witness ==
  /\ run.pc = "quad"
  /\ run.q >= 4
  /\ run.fallback # {}
  /\ run.written \ run.fallback # {}

\* C16. At the resolution grid_size the cells the 4 quadrants address are
\* pairwise disjoint and together are the whole grid_size x grid_size grid.
C16_QuadrantsPartitionGrid ==
  run.pc = "grid" =>
    /\ \A p, q \in 0..3 :
         p # q => QuadrantCells(run.gridSize, p) \cap QuadrantCells(run.gridSize, q) = {}
    /\ UNION { QuadrantCells(run.gridSize, q) : q \in 0..3 }
         = (0..(run.gridSize - 1)) \X (0..(run.gridSize - 1))

\* C17. The index map of the resolution grid_size is the identity; that of
\* mobile_grid_size, when it is smaller than grid_size, starts at 0, ends at
\* grid_size - 1, is strictly increasing, and its entry i is the integer
\* nearest to i * (grid_size - 1) / (mobile_grid_size - 1).
C17_IndexMap ==
  LET gs == run.gridSize
      ts == MobileGridSize
      im == IndexMap(gs, ts)
  IN /\ IndexMap(gs, gs) = [i \in 1..gs |-> i - 1]
     /\ ts < gs =>
          /\ Len(im) = ts
          /\ im[1] = 0
          /\ im[ts] = gs - 1
          /\ \A i \in 1..(ts - 1) : im[i] < im[i + 1]
          /\ \A i \in 1..ts :
               LET d == 2 * (im[i] * (ts - 1) - (i - 1) * (gs - 1))
               IN d <= ts - 1 /\ 0 - d <= ts - 1

\* C17 happens: a run with grid_size above mobile_grid_size composites a
\* mobile quadrant.
C17_Witness ==
  /\ run.gridSize > MobileGridSize
  /\ run.pc = "quad"
  /\ run.q >= 4

\* C18. all_params has grid_size^2 entries in row-major order (y outer, x
\* inner); the axis runs from -15 to 15; each entry has pupil_x = x,
\* pupil_y = -y, head_pitch = y / 2, head_yaw = -x / 2, eyebrow = max(0, -y).
C18_ParameterGrid ==
  (run.pc = "batch" /\ run.i = 0) =>
    LET gs == run.gridSize
        values == AxisValues(gs)
    IN /\ Len(run.params) = gs * gs
       /\ values[1] = 0 - AxisHalf * Unit
       /\ values[gs] = AxisHalf * Unit
       /\ \A i \in 1..gs : values[1] <= values[i] /\ values[i] <= values[gs]
       /\ \A k \in 1..(gs * gs) :
            LET p == run.params[k]
            IN /\ p.y = values[((k - 1) \div gs) + 1]
               /\ p.x = values[((k - 1) % gs) + 1]
               /\ p.pupil_x = p.x
               /\ p.pupil_y + p.y = 0
               /\ 2 * p.head_pitch = p.y
               /\ 2 * p.head_yaw + p.x = 0
               /\ p.eyebrow = (IF p.y < 0 THEN 0 - p.y ELSE 0)

\* C18 happens: the grid of a run with grid_size 5 has been built and its
\* first batch is about to be rendered.
C18_Witness ==
  /\ run.pc = "batch"
  /\ run.i = 0
  /\ run.gridSize = 5
  /\ Len(run.params) = 25

\* C19. Every record in the session map holds a quadrants list of exactly 8
\* entries, each with one of the five statuses.
C19_EightQuadrantSlots ==
  \A s \in Sessions :
    sessionProgress[s] # NoObj =>
      LET rec == heap[sessionProgress[s]]
      IN /\ HasQuadrants(rec)
         /\ Len(rec.quadrants) = NumQuadrants
         /\ \A i \in 1..NumQuadrants :
              rec.quadrants[i] \in {QUADRANT_PENDING, QUADRANT_STITCHING,
                                    QUADRANT_UPLOADING, QUADRANT_DONE,
                                    QUADRANT_ERROR}

\* C20. A GET /progress answers with the record of the session when the map
\* has one, with stage "unknown", current 0, total 0 when it has none, and
\* leaves the map and the records as they were.
C20_PollReadsOnly ==
  [][polled' # polled =>
       LET s == polled'.session
       IN /\ sessionProgress' = sessionProgress
          /\ heap' = heap
          /\ sessionProgress[s] # NoObj => polled'.body = heap[sessionProgress[s]]
          /\ sessionProgress[s] = NoObj =>
               /\ polled'.body.stage = "unknown"
               /\ polled'.body.current = 0
               /\ polled'.body.total = 0]_vars

\* C20 happens: a poll was answered with the record of a session whose
\* request is loading the models, and the record is still in the map.
C20_Witness ==
  /\ polled.session \in Sessions
  /\ polled.body # << >>
  /\ polled.body.stage = "loading"
  /\ sessionProgress[polled.session] # NoObj
  /\ heap[sessionProgress[polled.session]] = polled.body

C26_BatchLoop ==
  /\ [][(run.pc = "batch" /\ run' # run) =>
          LET total == run.gridSize * run.gridSize
              i == Len(run.generated)
              n == Min(run.batchSize, total - i)
          IN /\ run.current = i
             /\ 1 <= n /\ n <= run.batchSize
             /\ run'.pc \in {"batch", "bg", "grid", "raised"}
             /\ run'.pc # "raised" =>
                  /\ run'.generated =
                       run.generated \o
                         [k \in 1..n |-> << run.params[i + k].x, run.params[i + k].y, i + k - 1 >>]
                  /\ run'.current = i + n
                  /\ run'.current > run.current
                  /\ (run'.pc = "batch") = (i + n < total)
                  /\ run'.pc # "batch" => run'.current = total]_vars
  /\ (run.pc = "batch") ~> (run.pc # "batch")

\* C26 happens: a loop with batch_size 3 over the 25 parameters of
\* grid_size 5 has ended, after a last batch of one parameter.
C26_Witness ==
  /\ run.gridSize = 5
  /\ run.batchSize = 3
  /\ run.pc \in {"bg", "grid"}
  /\ run.current = 25
  /\ Len(run.generated) = 25

\* C27. Once image_grid is built it has exactly one image for every
\* (row, col) of the grid_size x grid_size grid, and the image at (row, col)
\* is the one rendered from the parameters at list position
\* row * grid_size + col.
C27_DenseLookup ==
  run.pc \in {"quad", "meta", "ret"} =>
    /\ DOMAIN run.imageGrid = (0..(run.gridSize - 1)) \X (0..(run.gridSize - 1))
    /\ \A row, col \in 0..(run.gridSize - 1) :
         /\ InImageGrid(run.imageGrid, << row, col >>)
         /\ run.imageGrid[<< row, col >>] = row * run.gridSize + col

\* C27 happens: image_grid of a 5 x 5 run with background removal has been
\* built.
C27_Witness ==
  /\ run.pc = "quad"
  /\ run.q = 0
  /\ run.gridSize = 5
  /\ run.rb
  /\ run.bg = 25

\* C28: under any interleaving of get_generator calls, every call returns
\* an instance (never None, never an exception caused by another call) whose
\* remove_background is the one the call asked for, and the instance in
\* _GENERATOR is replaced only by a call that asks for another setting than
\* the resident instance has.
C28_OneRendererAsRequested ==
  /\ [](\A t \in Loaders :
          /\ loader[t].err # "AttributeError"
          /\ loader[t].pc = "returned" =>
               /\ loader[t].ret # NoGenerator
               /\ loader[t].ret.remove_background = loader[t].remove_background)
  /\ [][\A t \in Loaders :
          (loader'[t] # loader[t] /\ generator # NoGenerator /\ generator' # generator) =>
            generator.remove_background # loader[t].remove_background]_vars

C31_EveryLookupFindsACell ==
  run.pc \in {"quad", "meta", "ret"} =>
    LET gs == run.gridSize
    IN /\ \A target \in {gs, MobileGridSize} :
            LET im == IndexMap(gs, target)
            IN /\ Len(im) = target
               /\ \A i \in 1..target : im[i] \in 0..(gs - 1)
               /\ \A i \in 1..(target - 1) : im[i] <= im[i + 1]
       /\ \A q \in Quadrants :
            \A rc \in LocalCells(HalfOf(gs, q)) :
              InImageGrid(run.imageGrid,
                          SourceCell(IndexMap(gs, TargetOf(gs, q)), TargetCell(gs, q, rc)))
       /\ \A q \in run.written :
            { << p[1], p[2] >> : p \in run.sprites[q] }
              = { << rc[1] * ImgH, rc[2] * ImgW >> : rc \in LocalCells(HalfOf(gs, q)) }

\* A run with grid_size 2, the smallest, has written all 8 sprites, one of
\* the mobile ones through the fallback: each mobile sprite has its 100 cells.
C31_Witness ==
  /\ run.pc = "ret"
  /\ run.gridSize = 2
  /\ run.written = Quadrants
  /\ run.fallback \cap (4..7) # {}
  /\ \A q \in 4..7 : Cardinality(run.sprites[q]) = (MobileGridSize \div 2) * (MobileGridSize \div 2)

====
